---- MODULE Spec2Model ----
(***************************************************************************)
(* The frame loop and camera-transition engine of web-splat (src/lib.rs):  *)
(* WindowContext (resize, update, render, set_camera, update_camera,       *)
(* set_point_cloud, set_scene) and the event loop of open_window.          *)
(*                                                                         *)
(* Time is counted in units of 100 ms (Duration::from_millis(200) is 2).   *)
(* A camera is [pos, fovx]: a pose on one axis and the aspect-dependent    *)
(* field of view of its projection.  An Option is a sequence of length     *)
(* 0 (None) or 1 (Some).                                                   *)
(***************************************************************************)
EXTENDS Integers, Sequences, FiniteSets, TLC

VARIABLES
    phase,            \* position of open_window: "created", "loop", "panic"
    control_flow,     \* *control_flow: "Poll" or "Exit"
    state,            \* the WindowContext
    inner_size        \* state.window.inner_size()

vars == <<phase, control_flow, state, inner_size>>

-----------------------------------------------------------------------------
(* Bounds of the model *)

MaxDt == 2
MaxDuration == 1
MaxPos == 1
MaxRandom == 2

(* Program constants *)

\* Duration::from_millis(200), in units of 100 ms
AnimationDuration == 2
\* Deg(45.), in units of 22.5 degrees
BaseFov == 2

None == <<>>
Some(x) == <<x>>

Size(width, height) == [width |-> width, height |-> height]
\* window sizes: minimised in either dimension, and two proper sizes
Sizes == {Size(0, 1), Size(1, 0), Size(1, 1), Size(2, 1)}
\* scale factors an event carries
ScaleFactors == {0, 1}
\* numbers of cameras of a scene file; a file may list none
CameraCounts == {0, 1, 2}
\* keys: re-sort, random camera, number keys, a movement key, no virtual keycode
Keys == {"G", "R", "Key0", "Key1", "Key2", "W", ""}
Dts == 0 .. MaxDt
Durations == 0 .. MaxDuration
AcquireResults == {"Ok", "Lost", "OutOfMemory", "Timeout", "Outdated"}

Min(a, b) == IF a < b THEN a ELSE b
Max(a, b) == IF a > b THEN a ELSE b

-----------------------------------------------------------------------------
(* Camera model: projection resize, easing, interpolation *)

\* width as f32 / height as f32 applied to the fixed field of view; a division
\* by zero gives no finite value (written -1).
Fovx(width, height) ==
    IF height = 0 THEN -1 ELSE (BaseFov * width) \div height

\* PerspectiveProjection::resize
projection_resize(camera, width, height) ==
    [camera EXCEPT !.fovx = Fovx(width, height)]

\* utils::smoothstep on the fraction x = <<num, den>>: 3x^2 - 2x^3
smoothstep(x) ==
    <<3 * x[1] * x[1] * x[2] - 2 * x[1] * x[1] * x[1], x[2] * x[2] * x[2]>>

\* PerspectiveCamera::lerp: every field linearly, by amount = <<num, den>>
lerp(start, target, amount) ==
    [pos  |-> start.pos + ((target.pos - start.pos) * amount[1]) \div amount[2],
     fovx |-> start.fovx + ((target.fovx - start.fovx) * amount[1]) \div amount[2]]

\* Scene::camera(index).into(): the stored camera of that index
scene_camera(index) ==
    [pos |-> MaxPos - index, fovx |-> BaseFov + 1]

\* CameraController::update_camera: moves the camera by the accumulated input
controller_update_camera(controller, camera, dt) ==
    [camera EXCEPT !.pos = Min(MaxPos, camera.pos + controller.amount * dt)]

\* CameraController::process_keyboard / process_scroll / process_mouse
controller_process(controller, delta) ==
    [controller EXCEPT !.amount = Max(0, Min(1, controller.amount + delta))]

\* PointCloud::sort(queue, camera): the draw order is recomputed for camera
pc_sort(pc, camera) ==
    pc

-----------------------------------------------------------------------------
(* state.trace: the calls made by the handler that ran last, in order: the   *)
(* methods of WindowContext it entered and the calls to the collaborators.   *)

NoCamera == [pos |-> -1, fovx |-> -1]
NoSize == [width |-> 0, height |-> 0]
Call(fn, camera, size, n, res) ==
    [fn |-> fn, camera |-> camera, size |-> size, n |-> n, res |-> res]
CallC(fn, camera) == Call(fn, camera, NoSize, 0, "")
CallS(fn, size) == Call(fn, NoCamera, size, 0, "")
CallN(fn, n) == Call(fn, NoCamera, NoSize, n, "")

Log(self, call) == [self EXCEPT !.trace = Append(self.trace, call)]
Begin(self) == [self EXCEPT !.trace = <<>>]

Calls(trace, fn) == {i \in 1 .. Len(trace) : trace[i].fn = fn}
NumCalls(trace, fn) == Cardinality(Calls(trace, fn))

-----------------------------------------------------------------------------
(* WindowContext *)

\* a guard that looks at the height alone
resize_guard_height_only(new_size) ==
    new_size.height > 0

\* the guard of resize
resize_guard(new_size) ==
    new_size.width > 0 /\ new_size.height > 0

\* WindowContext::resize
resize(self, new_size, scale_factor) ==
    LET s0 == Log(self, CallS("resize", new_size))
        s1 == IF resize_guard(new_size)
              THEN Log([s0 EXCEPT
                           !.config = new_size,
                           !.camera = projection_resize(self.camera, new_size.width,
                                                        new_size.height),
                           !.surface = new_size],
                       CallS("configure", new_size))
              ELSE s0
    IN  IF scale_factor # None /\ scale_factor[1] > 0
        THEN [s1 EXCEPT !.scale_factor = scale_factor[1]]
        ELSE s1

\* the sort of the point cloud, when one is attached
sort_pc(self) ==
    IF self.pc # None
    THEN Log([self EXCEPT !.pc = Some(pc_sort(self.pc[1], self.camera))],
             CallC("sort", self.camera))
    ELSE self

\* WindowContext::set_point_cloud
set_point_cloud(self) ==
    Log([self EXCEPT !.pc = Some([points |-> 1])],
        CallC("sort", self.camera))

\* WindowContext::set_scene
set_scene(self, num_cameras) ==
    [self EXCEPT !.scene = Some(num_cameras)]

\* a subtraction that goes below zero
checked_sub_unchecked(a, b) ==
    Some(a - b)

\* Duration::checked_sub
checked_sub(a, b) ==
    IF b > a THEN None ELSE Some(a - b)

\* an interpolation step that also sorts the point cloud
update_interpolate_sorting(self, new_left) ==
    LET t == self.next_camera[1]
        amount == smoothstep(<<t.duration - new_left, t.duration>>)
    IN  sort_pc(Log([self EXCEPT !.next_camera = Some([t EXCEPT !.time_left = new_left]),
                                 !.camera = lerp(t.start, t.target, amount)],
                    CallN("lerp", 0)))

\* update, Some(new_left) branch: store the time left and interpolate
update_interpolate(self, new_left) ==
    LET t == self.next_camera[1]
        elapsed == <<t.duration - new_left, t.duration>>
        amount == smoothstep(elapsed)
    IN  Log([self EXCEPT !.next_camera = Some([t EXCEPT !.time_left = new_left]),
                         !.camera = lerp(t.start, t.target, amount)],
            CallN("lerp", elapsed[1]))

\* a None branch that sorts for the target before its projection is resized
update_complete_sort_first(self) ==
    LET t == self.next_camera[1]
        s1 == sort_pc([self EXCEPT !.camera = t.target])
        s2 == [s1 EXCEPT !.camera = projection_resize(t.target, self.config.width,
                                                      self.config.height)]
    IN  [s2 EXCEPT !.next_camera = None]

\* a None branch that installs the target with the projection it brings
update_complete_no_resize(self) ==
    LET t == self.next_camera[1]
        s2 == sort_pc([self EXCEPT !.camera = t.target])
    IN  [s2 EXCEPT !.next_camera = None]

\* update, None branch: the target is reached
update_complete(self) ==
    LET t == self.next_camera[1]
        s1 == [self EXCEPT !.camera = projection_resize(t.target, self.config.width,
                                                        self.config.height)]
        s2 == sort_pc(s1)
    IN  [s2 EXCEPT !.next_camera = None]

\* an else branch that also sorts the point cloud
update_controller_sorting(self, dt) ==
    sort_pc(Log([self EXCEPT !.camera =
                    controller_update_camera(self.controller, self.camera, dt)],
                CallN("controller", 0)))

\* update, else branch: the controller moves the camera
update_controller(self, dt) ==
    Log([self EXCEPT !.camera = controller_update_camera(self.controller, self.camera, dt)],
        CallN("controller", 0))

\* an update that runs the controller after the Transition's step as well
update_controller_always(self, dt) ==
    LET s0 == Log(self, CallN("update", 0))
    IN  IF s0.next_camera # None
        THEN LET new_left == checked_sub(s0.next_camera[1].time_left, dt)
             IN  IF new_left # None
                 THEN update_controller(update_interpolate(s0, new_left[1]), dt)
                 ELSE update_controller(update_complete(s0), dt)
        ELSE update_controller(s0, dt)

\* WindowContext::update
update(self, dt) ==
    LET s0 == Log(self, CallN("update", 0))
    IN  IF s0.next_camera # None
        THEN LET new_left == checked_sub(s0.next_camera[1].time_left, dt)
             IN  IF new_left # None
                 THEN update_interpolate(s0, new_left[1])
                 ELSE update_complete(s0)
        ELSE update_controller(s0, dt)

\* WindowContext::render: the frame is acquired, drawn and presented, or the
\* acquisition's error is returned
render(self, acquire) ==
    LET s0 == Log(self, Call("get_current_texture", NoCamera, NoSize, 0, acquire))
    IN  IF acquire # "Ok"
        THEN s0
        ELSE IF s0.pc # None
             THEN Log(s0, Call("draw", s0.camera, s0.config, 0, ""))
             ELSE s0

\* an update_camera that leaves the projection as the camera brings it
update_camera_no_resize(self, camera) ==
    sort_pc([self EXCEPT !.camera = camera])

\* WindowContext::update_camera
update_camera(self, camera) ==
    sort_pc([self EXCEPT !.camera = projection_resize(camera, self.config.width,
                                                      self.config.height)])

\* a set_camera whose Transition starts at the requested camera
set_camera_start_at_target(self, camera, animation_duration) ==
    LET s0 == Log(self, Call("set_camera", camera, NoSize, animation_duration, ""))
    IN  IF animation_duration = 0
        THEN update_camera(s0, camera)
        ELSE [s0 EXCEPT !.next_camera =
                 Some([time_left |-> animation_duration, duration |-> animation_duration,
                       start |-> camera, target |-> camera])]

\* WindowContext::set_camera
set_camera(self, camera, animation_duration) ==
    LET s0 == Log(self, Call("set_camera", camera, NoSize, animation_duration, ""))
    IN  IF animation_duration = 0
        THEN update_camera(s0, camera)
        ELSE [s0 EXCEPT !.next_camera =
                 Some([time_left |-> animation_duration, duration |-> animation_duration,
                       start |-> s0.camera, target |-> camera])]

-----------------------------------------------------------------------------
(* open_window *)

\* utils::key_to_num
key_to_num(key) ==
    CASE key = "Key0" -> Some(0)
      [] key = "Key1" -> Some(1)
      [] key = "Key2" -> Some(2)
      [] OTHER -> None

\* the movement a key stands for in CameraController::process_keyboard
key_amount(key, pressed) ==
    IF key = "W" THEN (IF pressed THEN 1 ELSE -1) ELSE 0

\* the KeyboardInput arm, keys G, 0-9 and R on release; index is the camera
\* the scene is asked for (None: no lookup)
key_released(self, key, rnd_idx) ==
    IF key = "G"
    THEN sort_pc(self)
    ELSE IF key_to_num(key) # None
    THEN IF self.scene # None
         THEN set_camera(Log(self, CallN("camera", key_to_num(key)[1])),
                         scene_camera(key_to_num(key)[1]), AnimationDuration)
         ELSE self
    ELSE IF key = "R"
    THEN IF self.scene # None
         THEN set_camera(Log(self, CallN("camera", rnd_idx % self.scene[1])),
                         scene_camera(rnd_idx % self.scene[1]), AnimationDuration)
         ELSE self
    ELSE self

\* whether the KeyboardInput arm asks the scene for a camera it does not have
key_out_of_range(self, key, pressed) ==
    /\ ~pressed
    /\ key_to_num(key) # None
    /\ self.scene # None
    /\ key_to_num(key)[1] >= self.scene[1]

\* whether the KeyboardInput arm takes a remainder by zero: rnd_idx %
\* scene.num_cameras() for a scene without cameras
random_on_empty_scene(self, key, pressed) ==
    /\ ~pressed
    /\ key = "R"
    /\ self.scene # None
    /\ self.scene[1] = 0

\* the KeyboardInput arm
keyboard_input(self, key, pressed, rnd_idx) ==
    IF key = ""
    THEN self
    ELSE LET s1 == IF ~pressed THEN key_released(self, key, rnd_idx) ELSE self
         IN  [s1 EXCEPT !.controller =
                 controller_process(s1.controller, key_amount(key, pressed))]

\* the MouseWheel, MouseInput and MouseMotion arms
mouse_input(self, delta) ==
    [self EXCEPT !.controller = controller_process(self.controller, delta)]

\* a match that reconfigures the surface on every error
on_render_result_always_resize(self, acquire, size) ==
    IF acquire # "Ok" THEN resize(self, size, None) ELSE self

\* the match on the result of state.render() in RedrawRequested
on_render_result(self, acquire, size) ==
    IF acquire = "Lost" THEN resize(self, size, None) ELSE self

\* a match that also leaves the loop when the surface is lost
render_control_flow_lost_exits(acquire) ==
    IF acquire \in {"OutOfMemory", "Lost"} THEN "Exit" ELSE "Poll"

\* ControlFlow after the match on the result of state.render()
render_control_flow(acquire) ==
    IF acquire = "OutOfMemory" THEN "Exit" ELSE "Poll"

\* a RedrawRequested arm that renders before it updates
redraw_render_first(self, dt, acquire, size) ==
    on_render_result(update(render(self, acquire), dt), acquire, size)

\* the body of the RedrawRequested arm
redraw(self, dt, acquire, size) ==
    on_render_result(render(update(self, dt), acquire), acquire, size)

Init ==
    /\ phase = "created"
    /\ control_flow = "Poll"
    /\ inner_size \in {s \in Sizes : s.width > 0 /\ s.height > 0}
    /\ state = [config       |-> inner_size,
                surface      |-> inner_size,
                scale_factor |-> 1,
                pc           |-> None,
                camera       |-> [pos |-> 0, fovx |-> Fovx(inner_size.width,
                                                         inner_size.height)],
                next_camera  |-> None,
                controller   |-> [amount |-> 0],
                scene        |-> None,
                trace        |-> <<>>]

Running == phase = "loop" /\ control_flow = "Poll"

\* open_window: state.set_scene(scene), when a scene file is given
SetScene ==
    /\ phase = "created"
    /\ state.scene = None
    /\ \E n \in CameraCounts :
          /\ state' = set_scene(Begin(state), n)
    /\ UNCHANGED <<phase, control_flow, inner_size>>

\* open_window: state.set_point_cloud(pc), then the event loop starts
SetPointCloud ==
    /\ phase = "created"
    /\ state' = set_point_cloud(Begin(state))
    /\ phase' = "loop"
    /\ UNCHANGED <<control_flow, inner_size>>

\* the public set_camera, called with any camera and any duration
SetCamera ==
    /\ phase # "panic" /\ control_flow = "Poll"
    /\ \E i \in 0 .. 1, d \in Durations :
          /\ state' = set_camera(Begin(state), scene_camera(i), d)
    /\ UNCHANGED <<phase, control_flow, inner_size>>

\* WindowEvent::Resized: the window has a new size (zero when minimised)
Resized ==
    /\ Running
    /\ \E s \in Sizes :
          /\ inner_size' = s
          /\ state' = resize(Begin(state), s, None)
    /\ UNCHANGED <<phase, control_flow>>

\* WindowEvent::ScaleFactorChanged
ScaleFactorChanged ==
    /\ Running
    /\ \E s \in Sizes, f \in ScaleFactors :
          /\ inner_size' = s
          /\ state' = resize(Begin(state), s, Some(f))
    /\ UNCHANGED <<phase, control_flow>>

\* WindowEvent::CloseRequested
CloseRequested ==
    /\ Running
    /\ control_flow' = "Exit"
    /\ state' = Begin(state)
    /\ UNCHANGED <<phase, inner_size>>

\* WindowEvent::KeyboardInput
KeyboardInput ==
    /\ Running
    /\ \E key \in Keys, pressed \in BOOLEAN, rnd_idx \in 0 .. MaxRandom :
          /\ (key # "R" \/ pressed) => rnd_idx = 0
          /\ IF key_out_of_range(state, key, pressed)
             THEN /\ phase' = "panic"
                  /\ state' = Log(Begin(state),
                                  CallN("camera", key_to_num(key)[1]))
             ELSE IF random_on_empty_scene(state, key, pressed)
             THEN /\ phase' = "panic"
                  /\ state' = Begin(state)
             ELSE /\ phase' = phase
                  /\ state' = keyboard_input(Begin(state), key, pressed, rnd_idx)
    /\ UNCHANGED <<control_flow, inner_size>>

\* WindowEvent::MouseWheel, WindowEvent::MouseInput, DeviceEvent::MouseMotion:
\* the input is handed to the controller
MouseInput ==
    /\ Running
    /\ \E delta \in {-1, 1} :
          /\ state' = mouse_input(Begin(state), delta)
    /\ UNCHANGED <<phase, control_flow, inner_size>>

\* Event::RedrawRequested
RedrawRequested ==
    /\ Running
    /\ \E dt \in Dts, acquire \in AcquireResults :
          /\ state' = redraw(Begin(state), dt, acquire, inner_size)
          /\ control_flow' = render_control_flow(acquire)
    /\ UNCHANGED <<phase, inner_size>>

\* Event::MainEventsCleared
MainEventsCleared ==
    /\ Running
    /\ state' = Begin(state)
    /\ UNCHANGED <<phase, control_flow, inner_size>>

Next ==
    \/ SetScene
    \/ SetPointCloud
    \/ SetCamera
    \/ Resized
    \/ ScaleFactorChanged
    \/ CloseRequested
    \/ KeyboardInput
    \/ MouseInput
    \/ RedrawRequested
    \/ MainEventsCleared

Spec == Init /\ [][Next]_vars

\* MainEventsCleared requests a redraw in every cycle of the loop, so redraw
\* ticks keep coming while the loop runs; the dt of a tick is what the clock gives
FairSpec == Spec /\ WF_vars(RedrawRequested)

-----------------------------------------------------------------------------
(* Properties *)

Animating == state.next_camera # None
HasCall(trace, fn) == Calls(trace, fn) # {}
\* the state the handler starts from, and the tick's update applied to it
Before == Begin(state)
Updated(dt) == update(Before, dt)
\* the handler that ran last was a redraw tick whose frame acquisition gave res
TickWith(trace, res) ==
    \E i \in Calls(trace, "get_current_texture") : trace[i].res \in res

\* C1 (as claimed): an update(dt) applied to a Transition with time_left = L
\* leaves time_left = max(0, L - dt); whenever that is 0 (dt = L or dt > L) the
\* Transition is removed in that update and the active camera is the stored
\* target with its projection resized to the surface dimensions.
C1_UpdateReachesZeroCompletes ==
    (Running /\ Animating) =>
        \A dt \in Dts :
            LET t == state.next_camera[1]
                left == Max(0, t.time_left - dt)
                s == Updated(dt)
            IN  IF left > 0
                THEN s.next_camera # None /\ s.next_camera[1].time_left = left
                ELSE /\ s.next_camera = None
                     /\ s.camera = projection_resize(t.target, state.config.width,
                                                     state.config.height)

\* the updates dts applied one after the other; the result is the final state
\* and the number of sorts each update made
RECURSIVE RunUpdates(_, _, _)
RunUpdates(self, dts, sorts) ==
    IF dts = <<>>
    THEN [final |-> self, sorts |-> sorts]
    ELSE LET s == update(Begin(self), Head(dts))
         IN  RunUpdates(s, Tail(dts), Append(sorts, NumCalls(s.trace, "sort")))

RECURSIVE SumSeq(_)
SumSeq(q) == IF q = <<>> THEN 0 ELSE Head(q) + SumSeq(Tail(q))

\* sequences of one to three frame times
DtSeqs == UNION {[1 .. n -> Dts] : n \in 1 .. 3}

\* C2 (as claimed): from Idle with a dataset attached, a request to camera B
\* with duration D > 0 followed by updates whose dt sum to exactly D ends, after
\* the last update, Idle at B, the invalidator having fired exactly once, on
\* that last update.
C2_ExactDurationSettles ==
    (Running /\ ~Animating /\ state.pc # None) =>
        \A i \in 0 .. 1, D \in (Durations \cup {AnimationDuration}) \ {0} :
            \A dts \in DtSeqs :
                SumSeq(dts) = D =>
                    LET r == RunUpdates(set_camera(Before, scene_camera(i), D), dts, <<>>)
                    IN  /\ r.final.next_camera = None
                        /\ r.final.camera.pos = scene_camera(i).pos
                        /\ \A k \in 1 .. Len(dts) :
                              r.sorts[k] = IF k = Len(dts) THEN 1 ELSE 0

\* what the calls of the handler that ran last show it to have been
ZeroDurationApplied ==
    \E i \in Calls(state.trace, "set_camera") : state.trace[i].n = 0
TransitionCompleted ==
    /\ HasCall(state.trace, "update")
    /\ ~HasCall(state.trace, "lerp") /\ ~HasCall(state.trace, "controller")
    /\ state.next_camera = None
\* the re-sort input, or the attachment of the dataset: the sort and nothing else
SortAlone ==
    state.trace = <<CallC("sort", state.camera)>>

\* C3: the sort of the dataset is invoked only when a zero-duration camera
\* change is applied, in the update that completes a transition, on the re-sort
\* input and when the dataset is attached, once each time; never by an update
\* that runs the controller or only interpolates, nor by a resize or a camera
\* change of non-zero duration.
C3_SortOnlyOnSettle ==
    /\ HasCall(state.trace, "sort") =>
          /\ NumCalls(state.trace, "sort") = 1
          /\ ZeroDurationApplied \/ TransitionCompleted \/ SortAlone
    /\ HasCall(state.trace, "controller") => ~HasCall(state.trace, "sort")
    /\ HasCall(state.trace, "lerp") => ~HasCall(state.trace, "sort")
    /\ (HasCall(state.trace, "resize") /\ ~HasCall(state.trace, "update"))
          => ~HasCall(state.trace, "sort")
    /\ (\E i \in Calls(state.trace, "set_camera") : state.trace[i].n > 0)
          => ~HasCall(state.trace, "sort")

\* the update that completed a transition was the last one, and it sorted
C3_Witness ==
    /\ TransitionCompleted
    /\ NumCalls(state.trace, "sort") = 1

Callable == phase # "panic" /\ control_flow = "Poll"
Requests == (Durations \cup {AnimationDuration})

\* C4 (as claimed): a camera-change request of any duration, zero or not, made
\* while a Transition is in flight discards that Transition: what is left is
\* the requested Transition, or none after a zero duration, and no later update
\* interpolates towards the discarded target.
C4_RequestDiscardsTransition ==
    (Running /\ Animating) =>
        \A i \in 0 .. 1, d \in Requests :
            LET s == set_camera(Before, scene_camera(i), d)
            IN  /\ s.next_camera =
                      IF d = 0 THEN None
                      ELSE Some([time_left |-> d, duration |-> d,
                                 start |-> state.camera, target |-> scene_camera(i)])
                /\ d = 0 => \A dt \in Dts : ~HasCall(update(Begin(s), dt).trace, "lerp")

\* C5: a camera-change request of duration 0 replaces the active camera by the
\* requested one with its projection resized to the surface dimensions, sorts
\* the attached dataset exactly once, for that camera, inside the request (no
\* frame is drawn by it), and creates no Transition.
C5_ZeroDurationAppliesAtOnce ==
    Callable =>
        \A i \in 0 .. 1 :
            \A s \in {set_camera(Before, scene_camera(i), 0)} :
                /\ s.camera = [pos  |-> scene_camera(i).pos,
                               fovx |-> Fovx(state.config.width, state.config.height)]
                /\ state.pc # None =>
                      /\ NumCalls(s.trace, "sort") = 1
                      /\ \A k \in Calls(s.trace, "sort") : s.trace[k].camera = s.camera
                /\ ~HasCall(s.trace, "draw")
                /\ s.next_camera = state.next_camera
                /\ s.config = state.config

\* a zero-duration request was applied to a session that is Idle and has a dataset
C5_Witness ==
    /\ ZeroDurationApplied
    /\ state.pc # None /\ NumCalls(state.trace, "sort") = 1
    /\ state.next_camera = None
    /\ state.camera.pos = MaxPos

\* the scale factors resize is given: none, or any number
OptScaleFactors == {None} \cup {Some(f) : f \in ScaleFactors \cup {2}}

\* C6: resize(w, h, s) with w = 0 or h = 0 leaves the surface configuration and
\* the projection of the active camera as they are and does not reconfigure
\* the surface; with both positive it sets the configuration to (w, h), resizes
\* the projection to (w, h) and reconfigures the surface.  A positive scale
\* factor is stored, and nothing else is touched.
C6_ResizeGuard ==
    Running =>
        \A size \in Sizes, f \in OptScaleFactors :
            \A s \in {resize(Before, size, f)} :
                /\ (size.width = 0 \/ size.height = 0) =>
                      /\ s.config = state.config /\ s.surface = state.surface
                      /\ s.camera = state.camera
                      /\ ~HasCall(s.trace, "configure")
                /\ (size.width > 0 /\ size.height > 0) =>
                      /\ s.config = size /\ s.surface = size
                      /\ s.camera = [pos  |-> state.camera.pos,
                                     fovx |-> Fovx(size.width, size.height)]
                      /\ NumCalls(s.trace, "configure") = 1
                      /\ \A k \in Calls(s.trace, "configure") : s.trace[k].size = size
                /\ s.scale_factor = IF f # None /\ f[1] > 0 THEN f[1]
                                    ELSE state.scale_factor
                /\ s.next_camera = state.next_camera /\ s.pc = state.pc
                /\ s.controller = state.controller /\ s.scene = state.scene

\* a resize to a zero width was skipped: the window has that size, the
\* configuration is still a proper one
C6_Witness ==
    /\ Len(state.trace) = 1 /\ state.trace[1].fn = "resize"
    /\ state.trace[1].size.width = 0 /\ inner_size.width = 0
    /\ state.config.width > 0

\* C7 (as claimed): when the frame acquisition of a tick returns Lost, the
\* surface is reconfigured with the width and height held in the surface
\* configuration, the recovery does not alter the active camera, and the loop
\* goes on.
C7_LostReconfiguresLastSize ==
    Running =>
        \A dt \in Dts :
            LET r == redraw(Before, dt, "Lost", inner_size)
            IN  /\ \E k \in Calls(r.trace, "configure") : r.trace[k].size = state.config
                /\ r.config = state.config
                /\ r.camera = Updated(dt).camera
                /\ render_control_flow("Lost") = "Poll"

Transient == {"Timeout", "Outdated"}

\* C8 (as claimed): a tick whose frame acquisition fails with Timeout or
\* Outdated leaves the active camera, the Transition and the surface
\* configuration as they were before the tick.
C8_TransientTickChangesNothing ==
    Running =>
        \A dt \in Dts, acquire \in Transient :
            LET r == redraw(Before, dt, acquire, inner_size)
            IN  /\ r.camera = state.camera
                /\ r.next_camera = state.next_camera
                /\ r.config = state.config

\* C8 (amended): on such a tick the update of the tick has run, and the failed
\* acquisition adds nothing to it: camera, Transition and dataset are those the
\* update left, the surface configuration is that of before the tick, nothing
\* is drawn, resized or reconfigured, and the loop goes on.
C8_TransientTickKeepsUpdate ==
    Running =>
        \A dt \in Dts, acquire \in Transient :
            \A r \in {redraw(Before, dt, acquire, inner_size)}, u \in {Updated(dt)} :
                /\ r.camera = u.camera
                /\ r.next_camera = u.next_camera
                /\ r.pc = u.pc
                /\ r.config = state.config /\ r.surface = state.surface
                /\ r.scale_factor = state.scale_factor
                /\ ~HasCall(r.trace, "draw") /\ ~HasCall(r.trace, "resize")
                /\ ~HasCall(r.trace, "configure")
                /\ render_control_flow(acquire) = "Poll"

\* a tick that interpolated a Transition failed to acquire its frame
C8_Witness ==
    /\ TickWith(state.trace, Transient)
    /\ HasCall(state.trace, "lerp")
    /\ Animating /\ state.next_camera[1].time_left < state.next_camera[1].duration
    /\ control_flow = "Poll"

\* C9: the loop is in the exit state only after a window-close event, whose
\* handler calls nothing, or after a tick whose frame acquisition returned
\* OutOfMemory; no tick that ended Lost, Timeout or Outdated leaves it there.
C9_ExitOnlyOnCloseOrOutOfMemory ==
    /\ control_flow \in {"Poll", "Exit"}
    /\ control_flow = "Exit" =>
          state.trace = <<>> \/ TickWith(state.trace, {"OutOfMemory"})
    /\ TickWith(state.trace, {"Ok", "Lost", "Timeout", "Outdated"})
          => control_flow = "Poll"

\* the loop was left by a tick that ran out of memory
C9_Witness ==
    control_flow = "Exit" /\ TickWith(state.trace, {"OutOfMemory"})

\* C10: in a tick the update runs to completion before the frame is acquired
\* and drawn: every call of the update, a sort among them, precedes the
\* acquisition, and the camera handed to draw is the camera the update of this
\* tick left; with a frame and a dataset there is exactly one draw.
C10_UpdateBeforeRender ==
    Running =>
        \A dt \in Dts, acquire \in AcquireResults :
            \A r \in {redraw(Before, dt, acquire, inner_size)}, u \in {Updated(dt)} :
                /\ Len(r.trace) > Len(u.trace)
                /\ SubSeq(r.trace, 1, Len(u.trace)) = u.trace
                /\ r.trace[Len(u.trace) + 1].fn = "get_current_texture"
                /\ \A k \in Calls(r.trace, "sort") \cup Calls(r.trace, "update") :
                      k <= Len(u.trace)
                /\ \A k \in Calls(r.trace, "draw") :
                      /\ k = Len(u.trace) + 2
                      /\ r.trace[k].camera = u.camera
                      /\ r.trace[k].size = state.config
                /\ NumCalls(r.trace, "draw") =
                      IF acquire = "Ok" /\ state.pc # None THEN 1 ELSE 0

\* a tick completed a transition, sorted for the target and then drew it
C10_Witness ==
    /\ Len(state.trace) = 4
    /\ state.trace[1].fn = "update" /\ state.trace[2].fn = "sort"
    /\ state.trace[3].fn = "get_current_texture" /\ state.trace[4].fn = "draw"
    /\ state.trace[4].camera = state.camera
    /\ state.trace[2].camera = state.camera

\* the session as an event finds it: MainEventsCleared has cleared the log of
\* the handler before, and left everything else as that handler left it; before
\* the loop starts there is no such event.  Every state of the loop has its
\* twin here, so what holds for the inputs of every handler in these states
\* holds for them in all.
AtEvent == phase = "created" \/ state.trace = <<>>

\* the handler that ran last made a camera-change request
Requested == HasCall(state.trace, "set_camera")
\* the targets a Transition can have
Targets == {scene_camera(i) : i \in 0 .. 1}
\* a Transition towards target whose time_left has reached zero
TimeLeftZero(target) ==
    /\ Running /\ Animating
    /\ state.next_camera[1].time_left = 0
    /\ state.next_camera[1].target = target
\* the session is Idle at target, as the completing update left it
SettledAt(target) ==
    /\ ~Animating
    /\ state.camera = projection_resize(target, state.config.width, state.config.height)

C12_NoSceneControllerOnly ==
    (Running /\ AtEvent /\ state.scene = None /\ ~Animating) =>
        /\ \A key \in Keys, pressed \in BOOLEAN, rnd_idx \in 0 .. MaxRandom :
              \A s \in {keyboard_input(Before, key, pressed, rnd_idx)} :
                  /\ ~key_out_of_range(state, key, pressed)
                  /\ s.next_camera = None /\ s.scene = None
                  /\ s.camera = state.camera
                  /\ ~HasCall(s.trace, "set_camera") /\ ~HasCall(s.trace, "camera")
                  /\ (key_to_num(key) # None \/ key = "R") =>
                        s.trace = <<>> /\ s.controller = state.controller
        /\ \A size \in Sizes, f \in OptScaleFactors :
              \A s \in {resize(Before, size, f)} :
                  s.next_camera = None /\ s.scene = None
        /\ \A dt \in Dts, acquire \in AcquireResults :
              \A r \in {redraw(Before, dt, acquire, inner_size)} :
                  /\ r.camera = controller_update_camera(state.controller,
                                                         state.camera, dt)
                  /\ HasCall(r.trace, "controller")
                  /\ ~HasCall(r.trace, "sort") /\ ~HasCall(r.trace, "lerp")
                  /\ r.next_camera = None /\ r.scene = None

\* without a scene, a tick let the controller move the camera
C12_Witness ==
    /\ Running /\ state.scene = None /\ ~Animating
    /\ HasCall(state.trace, "controller")
    /\ state.controller.amount = 1 /\ state.camera.pos = MaxPos

\* C13: whenever a Transition is present its duration is positive and
\* 0 <= time_left <= duration; so the elapsed fraction an update hands to
\* smoothstep, and the amount it hands to lerp, lie in [0, 1], and an update
\* with dt > time_left does not go below zero: it completes the Transition.
C13_TimeLeftWithinDuration ==
    Animating =>
        \A t \in {state.next_camera[1]} :
            /\ t.duration > 0
            /\ 0 <= t.time_left /\ t.time_left <= t.duration
            /\ \A dt \in Dts :
                  \A u \in {Updated(dt)} :
                      /\ \A k \in Calls(u.trace, "lerp") :
                            \A amount \in {smoothstep(<<u.trace[k].n, t.duration>>)} :
                                /\ 0 <= u.trace[k].n /\ u.trace[k].n <= t.duration
                                /\ 0 <= amount[1] /\ amount[1] <= amount[2]
                      /\ dt > t.time_left =>
                            /\ u.next_camera = None
                            /\ ~HasCall(u.trace, "lerp")
                      /\ dt <= t.time_left =>
                            /\ u.next_camera # None
                            /\ u.next_camera[1].time_left = t.time_left - dt
                            /\ u.next_camera[1].duration = t.duration

\* a Transition is half way: a tick has interpolated it
C13_Witness ==
    /\ Animating /\ HasCall(state.trace, "lerp")
    /\ 0 < state.next_camera[1].time_left
    /\ state.next_camera[1].time_left < state.next_camera[1].duration

\* start, target and duration of a Transition (time_left left out)
Fixed(next_camera) ==
    IF next_camera = None THEN None
    ELSE Some([start    |-> next_camera[1].start,
               target   |-> next_camera[1].target,
               duration |-> next_camera[1].duration])

\* C14: a camera-change request of duration d > 0 creates the Transition with
\* time_left = duration = d, start = the active camera as it is at the request
\* (an interpolated one while a Transition is in flight) and target = the
\* requested camera; the request changes neither the active camera nor the
\* surface configuration and does not sort.  An update that keeps the
\* Transition, a whole tick, and a resize leave start, target and duration as
\* stored.
C14_RequestSnapshotsCameras ==
    (Callable /\ AtEvent) =>
        /\ \A i \in 0 .. 1, d \in Requests \ {0} :
              \A s \in {set_camera(Before, scene_camera(i), d)} :
                  /\ s.next_camera =
                        Some([time_left |-> d, duration |-> d,
                              start |-> state.camera, target |-> scene_camera(i)])
                  /\ s.camera = state.camera
                  /\ s.config = state.config /\ s.surface = state.surface
                  /\ s.pc = state.pc
                  /\ ~HasCall(s.trace, "sort") /\ ~HasCall(s.trace, "configure")
        /\ Animating =>
              /\ \A dt \in Dts, acquire \in AcquireResults :
                    \A r \in {redraw(Before, dt, acquire, inner_size)},
                       u \in {Updated(dt)} :
                        /\ u.next_camera # None =>
                              Fixed(u.next_camera) = Fixed(state.next_camera)
                        /\ r.next_camera = u.next_camera
              /\ \A size \in Sizes, f \in OptScaleFactors :
                    resize(Before, size, f).next_camera = state.next_camera

\* a request was made while a Transition was in flight: the new Transition
\* starts at an interpolated camera, whose field of view is that of no viewport
C14_Witness ==
    /\ Animating
    /\ \E k \in Calls(state.trace, "set_camera") : state.trace[k].n > 0
    /\ state.next_camera[1].time_left = state.next_camera[1].duration
    /\ state.next_camera[1].start = state.camera
    /\ state.camera.fovx = BaseFov + 1

\* the accumulated inputs the controller can hold
Amounts == 0 .. 1

\* C15: the update of a tick does exactly one of three things to the camera.
\* Idle at the start of the tick: the controller's update is applied.
\* Animating: the Transition is interpolated or completed and the controller's
\* update is not applied, so the camera the tick leaves does not depend on the
\* controller.  A keyboard or mouse input that arrives while Animating only
\* changes the controller, never the active camera.
C15_OneCameraDriverPerTick ==
    (Running /\ AtEvent) =>
        /\ \A dt \in Dts :
              \A u \in {Updated(dt)} :
                  /\ ~Animating =>
                        /\ NumCalls(u.trace, "controller") = 1
                        /\ ~HasCall(u.trace, "lerp") /\ ~HasCall(u.trace, "sort")
                        /\ u.next_camera = None
                        /\ u.camera = controller_update_camera(state.controller,
                                                               state.camera, dt)
                  /\ Animating =>
                        /\ ~HasCall(u.trace, "controller")
                        /\ \/ /\ NumCalls(u.trace, "lerp") = 1
                              /\ u.next_camera # None
                           \/ /\ ~HasCall(u.trace, "lerp")
                              /\ u.next_camera = None
                              /\ u.camera = projection_resize(
                                                state.next_camera[1].target,
                                                state.config.width, state.config.height)
                        /\ \A a \in Amounts :
                              update([Before EXCEPT !.controller.amount = a], dt).camera
                                  = u.camera
                  /\ u.controller = state.controller
        /\ Animating =>
              /\ \A key \in Keys, pressed \in BOOLEAN, rnd_idx \in 0 .. MaxRandom :
                    (/\ ~key_out_of_range(state, key, pressed)
                     /\ ~random_on_empty_scene(state, key, pressed)) =>
                        keyboard_input(Before, key, pressed, rnd_idx).camera
                            = state.camera
              /\ \A delta \in {-1, 1} :
                    \A s \in {mouse_input(Before, delta)} :
                        /\ s.camera = state.camera
                        /\ s.next_camera = state.next_camera

\* a tick interpolated a Transition while the controller held an input
C15_Witness ==
    /\ Running /\ Animating
    /\ HasCall(state.trace, "lerp") /\ ~HasCall(state.trace, "controller")
    /\ state.controller.amount = 1
    /\ state.next_camera[1].time_left < state.next_camera[1].duration

\* the handler asked the scene for camera n and requested the 200 ms
\* Transition from the active camera to it
RequestedSceneCamera(s, n) ==
    /\ Len(s.trace) = 2
    /\ s.trace[1] = CallN("camera", n)
    /\ s.trace[2] = Call("set_camera", scene_camera(n), NoSize, AnimationDuration, "")
    /\ s.next_camera = Some([time_left |-> AnimationDuration,
                             duration  |-> AnimationDuration,
                             start     |-> state.camera,
                             target    |-> scene_camera(n)])
NumberKeys == {key \in Keys : key_to_num(key) # None}

SortCameras(trace) == {trace[k].camera : k \in Calls(trace, "sort")}

\* C17: every sort of the dataset is given the active camera as it stands at
\* the call, and the handler that sorted leaves that camera active.  After a
\* zero-duration request and after a completion this is the target with its
\* projection resized to the surface dimensions; on the re-sort key it is the
\* active camera, an interpolated one while Animating, and the key changes
\* neither the camera nor the Transition.
C17_SortReceivesActiveCamera ==
    /\ SortCameras(state.trace) \subseteq {state.camera}
    /\ (Callable /\ AtEvent /\ state.pc # None) =>
          /\ \A i \in 0 .. 1 :
                \A s \in {set_camera(Before, scene_camera(i), 0)} :
                    /\ SortCameras(s.trace) =
                          {projection_resize(scene_camera(i), state.config.width,
                                             state.config.height)}
                    /\ SortCameras(s.trace) = {s.camera}
          /\ Animating =>
                \A dt \in Dts, acquire \in AcquireResults :
                    \A u \in {Updated(dt)},
                       r \in {redraw(Before, dt, acquire, inner_size)} :
                        IF u.next_camera = None
                        THEN /\ SortCameras(u.trace) =
                                   {projection_resize(state.next_camera[1].target,
                                                      state.config.width,
                                                      state.config.height)}
                             /\ SortCameras(u.trace) = {u.camera}
                             /\ SortCameras(r.trace) = {r.camera}
                        ELSE SortCameras(r.trace) = {}
          /\ \A pressed \in BOOLEAN :
                \A g \in {keyboard_input(Before, "G", pressed, 0)} :
                    /\ SortCameras(g.trace) = IF pressed THEN {} ELSE {state.camera}
                    /\ NumCalls(g.trace, "sort") = IF pressed THEN 0 ELSE 1
                    /\ g.camera = state.camera
                    /\ g.next_camera = state.next_camera

\* the re-sort key was released while Animating: the sort got the interpolated
\* camera, whose field of view is that of no viewport
C17_Witness ==
    /\ Running /\ Animating
    /\ state.trace = <<CallC("sort", state.camera)>>
    /\ state.camera.fovx = BaseFov + 1

\* C18: whenever no Transition is present, the projection of the active camera
\* is the one resized for the width and height of the surface configuration.
\* Resize, zero-duration apply, completion and the recovery of a lost surface
\* keep this, and the controller's update does not break it.
C18_IdleProjectionMatchesConfig ==
    ~Animating =>
        /\ state.config.width > 0 /\ state.config.height > 0
        /\ state.camera = projection_resize(state.camera, state.config.width,
                                            state.config.height)
        /\ Running =>
              \A dt \in Dts :
                  \A u \in {Updated(dt)} :
                      u.camera.fovx = Fovx(state.config.width, state.config.height)

\* Idle again after a Transition completed in a window that had been resized
C18_Witness ==
    /\ TransitionCompleted
    /\ state.config = Size(2, 1)
    /\ state.camera.fovx = Fovx(2, 1)

====
